---- MODULE Spec2Model ----
(***************************************************************************)
(* Subscription cancellation flow.                                         *)
(*                                                                         *)
(*   - the API route (app/api/cancellation/route.ts): variant assignment   *)
(*     and cancellation submissions against the cancellations and          *)
(*     subscriptions tables;                                               *)
(*   - the client (hooks/usecancellationflow.tsx and                       *)
(*     components/cancellation-flow.tsx): the variant fetch and the        *)
(*     wizard's step machine.                                              *)
(***************************************************************************)
EXTENDS Integers, Sequences, FiniteSets, Bags, TLC

\* ------------------------------------------------------------------------
\* Bounds of the model
\* ------------------------------------------------------------------------

\* Number of request handlers of the route that may be in flight at once.
MaxCalls == 2

\* Largest value of the random byte that the model draws (the code draws from
\* 0..255; only the parity of the byte is used).
MaxByte == 3

\* Feedback texts are tried up to MIN_FEEDBACK_LENGTH + MaxOver characters.
MaxOver == 0

\* Number of blanks tried on either side of a typed visa type.
MaxPad == 1

\* Number of back navigations in one run of the wizard.
MaxBacks == 2

\* ------------------------------------------------------------------------
\* JSON values of a request body, tagged with their JavaScript type
\* ------------------------------------------------------------------------

Undefined == [t |-> "undefined", v |-> ""]

Null == [t |-> "null", v |-> ""]

Str(s) == [t |-> "string", v |-> s]

Bool(b) == [t |-> "boolean", v |-> IF b THEN "true" ELSE "false"]

Num(d) == [t |-> "number", v |-> d]

\* JavaScript truthiness (the `!x` and `x &&` tests of the route).
Truthy(j) ==
    CASE j.t = "string" -> j.v # ""
      [] j.t = "boolean" -> j.v = "true"
      [] j.t = "number" -> j.v # "0"
      [] OTHER -> FALSE

\* ------------------------------------------------------------------------
\* The route: app/api/cancellation/route.ts
\* ------------------------------------------------------------------------

Users == {"u1", "u2"}

Subs == {"s1"}

Variants == {"A", "B"}

\* Outcomes of one awaited storage operation: it succeeds, it resolves with
\* {data: null, error} (which the route never inspects), or it rejects.
StorageOutcomes == {"ok", "error", "throw"}

VARIABLES
    cancellations,   \* the cancellations table: a sequence of rows, oldest first
    subscriptions,   \* the subscriptions table: id -> status
    calls,           \* the request handlers in flight: a bag of (position, locals)
    lastResponse,    \* the response most recently returned by POST
    firstVariant,    \* history: per identity pair, the first variant returned
    raced            \* history: the pairs for which two inserts were pending at once

serverVars == <<cancellations, subscriptions, calls, lastResponse, firstVariant, raced>>

VARIABLES
    userId,          \* props of CancellationFlow / arguments of the hook
    subscriptionId,
    variant,         \* useCancellationFlow: useState<Variant | null>
    loading,         \* useCancellationFlow: useState(true)
    error,           \* useCancellationFlow: useState<string | null>
    fetching,        \* the variant fetch: "idle", "pending" or "settled"
    flowState,       \* CancellationFlow: useState<FlowState>
    isOpen,          \* CancellationFlow: useState(true)
    submissions,     \* the submitCancellation calls made, with their outcome
    closed,          \* the argument of the last onClose call, "" before any
    backs,           \* number of goBack navigations made (bounded by MaxBacks)
    blocked          \* history: the disabled button clicked last, "" otherwise

flowVars ==
    <<userId, subscriptionId, variant, loading, error, fetching, flowState, isOpen,
      submissions, closed, backs, blocked>>

vars == <<serverVars, flowVars>>

\* A handler's position and locals. The field `failed` is history, not a local
\* of the code: a storage operation of this call resolved with an error.
NoCall ==
    [pc |-> "start", user_id |-> "", subscription_id |-> "", variant |-> "",
     accepted_downsell |-> Undefined, reason |-> Undefined, failed |-> FALSE]

NoResponse ==
    [kind |-> "none", status |-> 0, success |-> FALSE, message |-> "",
     variant |-> "", user_id |-> "", subscription_id |-> "", failed |-> FALSE]

\* The rows selected by .eq("user_id", u).eq("subscription_id", s).
Matching(rows, u, s) ==
    {k \in 1..Len(rows) : rows[k].user_id = u /\ rows[k].subscription_id = s}

\* .single(): the row when exactly one matches, otherwise data is null.
NoData == [found |-> FALSE, downsell_variant |-> ""]

Single(rows, u, s) ==
    IF Cardinality(Matching(rows, u, s)) = 1
    THEN [found |-> TRUE,
          downsell_variant |-> rows[CHOOSE k \in Matching(rows, u, s) : TRUE].downsell_variant]
    ELSE NoData

\* data?.downsell_variant
StoredVariant(data) == IF data.found THEN data.downsell_variant ELSE ""

\* randomValue % 2 === 0 ? "A" : "B"
VariantOfByte(randomValue) == IF randomValue % 2 = 0 THEN "A" ELSE "B"

\* crypto.randomBytes(1).readUInt8(0)
RandomBytes == 0..MaxByte

NewRow(u, s, v) ==
    [user_id |-> u, subscription_id |-> s, downsell_variant |-> v,
     accepted_downsell |-> Null, reason |-> Null]

\* The table after an insert. The cancellations table is unique on
\* (user_id, subscription_id): an insert for a pair that has a row is refused
\* and the table keeps the first row.
InsertNoConstraint(rows, row) == Append(rows, row)

InsertRow(rows, row) ==
    IF Matching(rows, row.user_id, row.subscription_id) # {}
    THEN rows
    ELSE Append(rows, row)

\* A column's value after .update({col: value}): JSON.stringify drops an
\* undefined property, so the column is left as it is.
Assigned(old, value) == IF value.t = "undefined" THEN old ELSE value

\* .update({ accepted_downsell, reason }).eq(...).eq(...)
UpdateRowsAlsoVariant(rows, u, s, accepted_downsell, reason) ==
    [k \in 1..Len(rows) |->
        IF k \in Matching(rows, u, s)
        THEN [rows[k] EXCEPT !.accepted_downsell = Assigned(@, accepted_downsell),
                             !.reason = Assigned(@, reason),
                             !.downsell_variant = "A"]
        ELSE rows[k]]

UpdateRows(rows, u, s, accepted_downsell, reason) ==
    [k \in 1..Len(rows) |->
        IF k \in Matching(rows, u, s)
        THEN [rows[k] EXCEPT !.accepted_downsell = Assigned(@, accepted_downsell),
                             !.reason = Assigned(@, reason)]
        ELSE rows[k]]

\* MarkPending, but a subscription that is pending becomes active again.
MarkPendingOrActive(subs, s) ==
    [id \in DOMAIN subs |->
        IF id # s THEN subs[id]
        ELSE IF subs[id] = "pending_cancellation" THEN "active" ELSE "pending_cancellation"]

\* .from("subscriptions").update({ status: "pending_cancellation" }).eq("id", s)
MarkPending(subs, s) ==
    [id \in DOMAIN subs |-> IF id = s THEN "pending_cancellation" ELSE subs[id]]

\* --- responses -----------------------------------------------------------

Rejected(status, message) ==
    [NoResponse EXCEPT !.kind = "error", !.status = status, !.message = message]

VariantResponse(c, v) ==
    [NoResponse EXCEPT !.kind = "variant", !.status = 200, !.success = TRUE,
                       !.variant = v, !.user_id = c.user_id,
                       !.subscription_id = c.subscription_id, !.failed = c.failed]

SubmitResponse(c) ==
    [NoResponse EXCEPT !.kind = "submit", !.status = 200, !.success = TRUE,
                       !.user_id = c.user_id,
                       !.subscription_id = c.subscription_id, !.failed = c.failed]

InternalError == Rejected(500, "Internal server error")

\* A handler starts with locals c; the handler at c moves on to c2; the
\* handler at c returns response r and ends.
Start(c) == calls' = calls (+) SetToBag({c})

Continue(c, c2) == calls' = (calls (-) SetToBag({c})) (+) SetToBag({c2})

Respond(c, r) ==
    /\ calls' = calls (-) SetToBag({c})
    /\ lastResponse' = r

InFlight == BagToSet(calls)

\* --- request bodies ------------------------------------------------------

UserIdInputs == {Undefined, Str("")} \cup {Str(u) : u \in Users}

SubscriptionIdInputs == {Undefined, Str("")} \cup {Str(s) : s \in Subs}

Bodies ==
    [user_id : UserIdInputs,
     subscription_id : SubscriptionIdInputs,
     get_variant : {Undefined, Bool(TRUE)},
     accepted_downsell : {Undefined, Bool(TRUE), Bool(FALSE), Str("yes")},
     reason : {Undefined, Str("r"), Num("0"), Num("5")}]

\* Receive, but without the test of user_id and subscription_id.
ReceiveNoIdentityCheck(parses, body) ==
    /\ BagCardinality(calls) < MaxCalls
    /\ UNCHANGED <<cancellations, subscriptions>>
    /\ IF ~parses
       THEN UNCHANGED calls /\ lastResponse' = InternalError
       ELSE IF Truthy(body.get_variant)
       THEN /\ Start([NoCall EXCEPT !.pc = "lookup", !.user_id = body.user_id.v,
                                    !.subscription_id = body.subscription_id.v])
            /\ UNCHANGED lastResponse
       ELSE IF body.accepted_downsell.t # "boolean"
       THEN /\ UNCHANGED calls
            /\ lastResponse' = Rejected(400, "accepted_downsell must be boolean")
       ELSE IF Truthy(body.reason) /\ body.reason.t # "string"
       THEN /\ UNCHANGED calls
            /\ lastResponse' = Rejected(400, "reason must be string")
       ELSE /\ Start([NoCall EXCEPT !.pc = "update", !.user_id = body.user_id.v,
                                    !.subscription_id = body.subscription_id.v,
                                    !.accepted_downsell = body.accepted_downsell,
                                    !.reason = body.reason])
            /\ UNCHANGED lastResponse

\* POST, up to its first storage operation: request.json() and the checks of
\* the body (lines 35-52). `parses` is whether request.json() succeeds.
Receive(parses, body) ==
    /\ BagCardinality(calls) < MaxCalls
    /\ UNCHANGED <<cancellations, subscriptions>>
    /\ IF ~parses
       THEN UNCHANGED calls /\ lastResponse' = InternalError
       ELSE IF ~Truthy(body.user_id) \/ ~Truthy(body.subscription_id)
       THEN /\ UNCHANGED calls
            /\ lastResponse' = Rejected(400, "Missing user_id or subscription_id")
       ELSE IF Truthy(body.get_variant)
       THEN /\ Start([NoCall EXCEPT !.pc = "lookup", !.user_id = body.user_id.v,
                                    !.subscription_id = body.subscription_id.v])
            /\ UNCHANGED lastResponse
       ELSE IF body.accepted_downsell.t # "boolean"
       THEN /\ UNCHANGED calls
            /\ lastResponse' = Rejected(400, "accepted_downsell must be boolean")
       ELSE IF Truthy(body.reason) /\ body.reason.t # "string"
       THEN /\ UNCHANGED calls
            /\ lastResponse' = Rejected(400, "reason must be string")
       ELSE /\ Start([NoCall EXCEPT !.pc = "update", !.user_id = body.user_id.v,
                                    !.subscription_id = body.subscription_id.v,
                                    !.accepted_downsell = body.accepted_downsell,
                                    !.reason = body.reason])
            /\ UNCHANGED lastResponse

\* getOrAssignVariant, from the select to the draw of a new variant
\* (lines 8-22): the stored variant is returned; with no data a variant is
\* drawn and the handler goes on to the insert.
Lookup(h, outcome) ==
    /\ h.pc = "lookup"
    /\ UNCHANGED <<cancellations, subscriptions>>
    /\ IF outcome = "throw"
       THEN Respond(h, InternalError)
       ELSE LET c == [h EXCEPT !.failed = @ \/ outcome = "error"]
                data == IF outcome = "ok"
                        THEN Single(cancellations, c.user_id, c.subscription_id)
                        ELSE NoData
            IN  IF StoredVariant(data) # ""
                THEN Respond(h, VariantResponse(c, StoredVariant(data)))
                ELSE /\ \E randomValue \in RandomBytes :
                          Continue(h, [c EXCEPT !.pc = "insert",
                                                !.variant = VariantOfByte(randomValue)])
                     /\ UNCHANGED lastResponse

\* getOrAssignVariant, the insert and the return of the drawn variant
\* (lines 24-30), then POST's response (line 43).
Insert(h, outcome) ==
    /\ h.pc = "insert"
    /\ UNCHANGED subscriptions
    /\ IF outcome = "throw"
       THEN /\ UNCHANGED cancellations
            /\ Respond(h, InternalError)
       ELSE LET c == [h EXCEPT !.failed = @ \/ outcome = "error"]
            IN  /\ cancellations' =
                      IF outcome = "ok"
                      THEN InsertRow(cancellations,
                                     NewRow(c.user_id, c.subscription_id, c.variant))
                      ELSE cancellations
                /\ Respond(h, VariantResponse(c, c.variant))

\* POST, the update of the cancellation record (lines 54-60).
Update(h, outcome) ==
    /\ h.pc = "update"
    /\ UNCHANGED subscriptions
    /\ IF outcome = "throw"
       THEN /\ UNCHANGED cancellations
            /\ Respond(h, InternalError)
       ELSE LET c == [h EXCEPT !.failed = @ \/ outcome = "error"]
            IN  /\ cancellations' =
                      IF outcome = "ok"
                      THEN UpdateRows(cancellations, c.user_id, c.subscription_id,
                                      c.accepted_downsell, c.reason)
                      ELSE cancellations
                /\ IF ~Truthy(c.accepted_downsell)
                   THEN /\ Continue(h, [c EXCEPT !.pc = "subscription",
                                                     !.reason = Undefined])
                        /\ UNCHANGED lastResponse
                   ELSE Respond(h, SubmitResponse(c))

\* POST, the update of the subscription and the response (lines 60-67).
UpdateSubscription(h, outcome) ==
    /\ h.pc = "subscription"
    /\ UNCHANGED cancellations
    /\ IF outcome = "throw"
       THEN /\ UNCHANGED subscriptions
            /\ Respond(h, InternalError)
       ELSE LET c == [h EXCEPT !.failed = @ \/ outcome = "error"]
            IN  /\ subscriptions' =
                      IF outcome = "ok"
                      THEN MarkPending(subscriptions, c.subscription_id)
                      ELSE subscriptions
                /\ Respond(h, SubmitResponse(c))

ServerInit ==
    /\ cancellations = <<>>
    /\ subscriptions = [s \in Subs |-> "active"]
    /\ calls = EmptyBag
    /\ lastResponse = NoResponse
    /\ firstVariant = [p \in Users \X Subs |-> ""]
    /\ raced = {}

\* The number of handlers in bag b that are about to insert a row for pair p.
Inserting(b, p) ==
    LET hs == {h \in BagToSet(b) : h.pc = "insert" /\ <<h.user_id, h.subscription_id>> = p}
    IN  BagCardinality([h \in hs |-> b[h]])

\* History: the first variant returned for each identity pair, recorded as
\* the response that carries it is returned; and the pairs that had two
\* inserts pending at once.
TrackHistory ==
    /\ firstVariant' =
          IF /\ lastResponse'.kind = "variant"
             /\ firstVariant[<<lastResponse'.user_id, lastResponse'.subscription_id>>] = ""
          THEN [firstVariant EXCEPT
                   ![<<lastResponse'.user_id, lastResponse'.subscription_id>>] =
                       lastResponse'.variant]
          ELSE firstVariant
    /\ raced' = raced \cup {p \in Users \X Subs : Inserting(calls', p) >= 2}
    /\ UNCHANGED flowVars

NoHistory == UNCHANGED <<firstVariant, raced, flowVars>>

\* The bodies of variant requests, with and without an identity.
VariantBodies ==
    {b \in Bodies : b.get_variant = Bool(TRUE) /\ b.accepted_downsell = Undefined
                    /\ b.reason = Undefined}

\* A body that request.json() cannot parse carries no fields.
NoBody ==
    [user_id |-> Undefined, subscription_id |-> Undefined, get_variant |-> Undefined,
     accepted_downsell |-> Undefined, reason |-> Undefined]

\* Variant requests handled concurrently by up to MaxCalls handlers.
AssignNext ==
    \/ \E body \in VariantBodies : Receive(TRUE, body) /\ TrackHistory
    \/ Receive(FALSE, NoBody) /\ TrackHistory
    \/ \E h \in InFlight, outcome \in StorageOutcomes : Lookup(h, outcome) /\ TrackHistory
    \/ \E h \in InFlight, outcome \in StorageOutcomes : Insert(h, outcome) /\ TrackHistory

\* Requests handled one after the other: none is received while another is
\* in flight.
ReceiveAlone(parses, body) == calls = EmptyBag /\ Receive(parses, body)

\* Variant requests handled one after the other.
SequentialNext ==
    \/ \E body \in VariantBodies : ReceiveAlone(TRUE, body) /\ TrackHistory
    \/ ReceiveAlone(FALSE, NoBody) /\ TrackHistory
    \/ \E h \in InFlight, outcome \in StorageOutcomes : Lookup(h, outcome) /\ TrackHistory
    \/ \E h \in InFlight, outcome \in StorageOutcomes : Insert(h, outcome) /\ TrackHistory

\* The well-formed requests the client sends: a variant request, a declined
\* submission with a reason and an accepted submission without one.
Payloads ==
    {[get_variant |-> Bool(TRUE), accepted_downsell |-> Undefined, reason |-> Undefined],
     [get_variant |-> Undefined, accepted_downsell |-> Bool(FALSE), reason |-> Str("r")],
     [get_variant |-> Undefined, accepted_downsell |-> Bool(TRUE), reason |-> Undefined]}

\* The well-formed requests, with every identity: present, empty or missing.
PlainBodies ==
    {[user_id |-> u, subscription_id |-> s, get_variant |-> payload.get_variant,
      accepted_downsell |-> payload.accepted_downsell, reason |-> payload.reason] :
        u \in UserIdInputs, s \in SubscriptionIdInputs, payload \in Payloads}

\* Well-formed requests, handled one after the other.
PlainNext ==
    \/ \E body \in PlainBodies : ReceiveAlone(TRUE, body) /\ NoHistory
    \/ \E h \in InFlight, outcome \in StorageOutcomes : Lookup(h, outcome) /\ NoHistory
    \/ \E h \in InFlight, outcome \in StorageOutcomes : Insert(h, outcome) /\ NoHistory
    \/ \E h \in InFlight, outcome \in StorageOutcomes : Update(h, outcome) /\ NoHistory
    \/ \E h \in InFlight, outcome \in StorageOutcomes :
          UpdateSubscription(h, outcome) /\ NoHistory

\* Requests of every kind, handled one after the other.
ServerNext ==
    \/ \E body \in Bodies : ReceiveAlone(TRUE, body) /\ NoHistory
    \/ ReceiveAlone(FALSE, NoBody) /\ NoHistory
    \/ \E h \in InFlight, outcome \in StorageOutcomes : Lookup(h, outcome) /\ NoHistory
    \/ \E h \in InFlight, outcome \in StorageOutcomes : Insert(h, outcome) /\ NoHistory
    \/ \E h \in InFlight, outcome \in StorageOutcomes : Update(h, outcome) /\ NoHistory
    \/ \E h \in InFlight, outcome \in StorageOutcomes :
          UpdateSubscription(h, outcome) /\ NoHistory

\* ------------------------------------------------------------------------
\* The client: hooks/usecancellationflow.tsx, components/cancellation-flow.tsx
\* ------------------------------------------------------------------------

FlowSteps ==
    {"job-question", "survey", "feedback", "congratulations", "visa-support",
     "visa-yes", "visa-no", "success", "success-alt", "retention-offer",
     "retention-accepted", "retention-survey", "retention-reason",
     "retention-price", "retention-platform", "retention-jobs", "retention-move",
     "retention-other", "retention-final"}

ROLE_OPTIONS == <<"0", "1-5", "6-20", "20+">>

INTERVIEW_OPTIONS == <<"0", "1-2", "3-5", "5+">>

CANCELLATION_REASONS ==
    <<"Too expensive", "Platform not helpful", "Not enough relevant jobs",
      "Decided not to move", "Other">>

MIN_FEEDBACK_LENGTH == 25

\* --- text values: sequences of characters --------------------------------

\* A text of n characters.
Text(n) == [k \in 1..n |-> "x"]

\* n blanks.
Blanks(n) == [k \in 1..n |-> " "]

IsSpace(ch) == ch = " "

\* String.prototype.trim(): the text without its leading and trailing blanks.
RECURSIVE TrimStart(_)
TrimStart(t) ==
    IF t = <<>> THEN <<>>
    ELSE IF IsSpace(Head(t)) THEN TrimStart(Tail(t))
    ELSE t

RECURSIVE TrimEnd(_)
TrimEnd(t) ==
    IF t = <<>> THEN <<>>
    ELSE IF IsSpace(t[Len(t)]) THEN TrimEnd(SubSeq(t, 1, Len(t) - 1))
    ELSE t

Trim(t) == TrimEnd(TrimStart(t))

\* What the user can type into the feedback text areas: nothing, one character
\* less than the minimum, and the minimum up to MaxOver characters more.
FeedbackInputs ==
    {Text(0), Text(MIN_FEEDBACK_LENGTH - 1)}
        \cup {Text(n) : n \in MIN_FEEDBACK_LENGTH..(MIN_FEEDBACK_LENGTH + MaxOver)}

\* What the user can type into the visa type input: a visa name or nothing,
\* between up to MaxPad blanks on either side.
VisaTypeInputs ==
    {Blanks(n) \o body \o Blanks(n) : n \in 0..MaxPad, body \in {<<>>, <<"H", "1", "B">>}}

\* What the number input of the price step can hold: nothing or a number (the
\* 0-1000 range of the input is not enforced on typed values).
MaxPriceInputs == {<<>>, <<"5">>, <<"1", "0", "0", "1">>}

\* The option picked for a survey question: the handlers store the option
\* and the validators test it against null, so one option stands for all.
RoleInputs == {Str(Head(ROLE_OPTIONS))}

InterviewInputs == {Str(Head(INTERVIEW_OPTIONS))}

ReasonInputs == {Str(CANCELLATION_REASONS[k]) : k \in 1..Len(CANCELLATION_REASONS)}

\* initialState (the useMemo of lines 88-109)
initialState ==
    [step |-> "job-question",
     hasJob |-> Null,
     surveyData |-> [foundJobWithMM |-> Null, rolesApplied |-> Null,
                     companiesEmailed |-> Null, companiesInterviewed |-> Null],
     feedback |-> <<>>,
     hasLawyer |-> Null,
     visaType |-> <<>>,
     completedSteps |-> 0,
     retentionData |-> [rolesApplied |-> Null, companiesEmailed |-> Null,
                        companiesInterviewed |-> Null, cancellationReason |-> Null,
                        maxPrice |-> <<>>, reasonFeedback |-> <<>>]]

\* --- validation (lines 116-135 and the disabled= attributes) --------------

\* isSurveyValid, but with a truthiness test of foundJobWithMM.
isSurveyValidTruthy(fs) ==
    /\ Truthy(fs.surveyData.foundJobWithMM)
    /\ Truthy(fs.surveyData.rolesApplied)
    /\ Truthy(fs.surveyData.companiesEmailed)
    /\ Truthy(fs.surveyData.companiesInterviewed)

isSurveyValid(fs) ==
    /\ fs.surveyData.foundJobWithMM # Null
    /\ Truthy(fs.surveyData.rolesApplied)
    /\ Truthy(fs.surveyData.companiesEmailed)
    /\ Truthy(fs.surveyData.companiesInterviewed)

isRetentionSurveyValid(fs) ==
    /\ Truthy(fs.retentionData.rolesApplied)
    /\ Truthy(fs.retentionData.companiesEmailed)
    /\ Truthy(fs.retentionData.companiesInterviewed)

isFeedbackValid(fs) == Len(fs.feedback) >= MIN_FEEDBACK_LENGTH

isReasonFeedbackValid(fs) == Len(fs.retentionData.reasonFeedback) >= MIN_FEEDBACK_LENGTH

\* disabled={flowState.hasLawyer === null}
isLawyerAnswered(fs) == fs.hasLawyer # Null

\* isVisaTypeValid, but without the trim.
isVisaTypeValidUntrimmed(fs) == fs.visaType # <<>>

\* disabled={!flowState.visaType.trim()}
isVisaTypeValid(fs) == Trim(fs.visaType) # <<>>

\* isReasonSelected, but the button of retention-reason is never disabled.
isReasonSelectedAlways(fs) == fs.step = "retention-reason"

\* disabled={!flowState.retentionData.cancellationReason}
isReasonSelected(fs) == Truthy(fs.retentionData.cancellationReason)

\* disabled={!flowState.retentionData.maxPrice.trim()}
isMaxPriceValid(fs) == Trim(fs.retentionData.maxPrice) # <<>>

\* --- the hook: the variant fetch -----------------------------------------

FlowInitWith(u, s) ==
    /\ userId = u
    /\ subscriptionId = s
    /\ variant = ""
    /\ loading = TRUE
    /\ error = ""
    /\ fetching = "idle"
    /\ flowState = initialState
    /\ isOpen = TRUE
    /\ submissions = <<>>
    /\ closed = ""
    /\ backs = 0
    /\ blocked = ""

\* The component is mounted with an identity pair; either part may be empty.
FlowInit ==
    \E u \in {"", "demo-user"}, s \in {"", "demo-subscription"} : FlowInitWith(u, s)

\* useEffect, up to the await of fetch (hook lines 12-30).
fetchVariant ==
    /\ fetching = "idle"
    /\ userId # "" /\ subscriptionId # ""
    /\ loading' = TRUE
    /\ error' = ""
    /\ fetching' = "pending"
    /\ UNCHANGED <<serverVars, userId, subscriptionId, variant, flowState, isOpen, submissions,
                   closed, backs, blocked>>

\* The responses the variant request can get: the fetch rejects; a status
\* that is not OK; {success: true, variant}; {success: false, message?}.
FetchOutcomes ==
    {[kind |-> "network", variant |-> "", message |-> ""],
     [kind |-> "http", variant |-> "", message |-> ""],
     [kind |-> "failure", variant |-> "", message |-> ""],
     [kind |-> "failure", variant |-> "", message |-> "Missing user_id or subscription_id"]}
        \cup {[kind |-> "success", variant |-> v, message |-> ""] : v \in Variants}

\* fetchSettles, but a failed request assigns variant A.
fetchSettlesGuessing(outcome) ==
    /\ fetching = "pending"
    /\ fetching' = "settled"
    /\ loading' = FALSE
    /\ variant' = IF outcome.kind = "success" THEN outcome.variant ELSE "A"
    /\ UNCHANGED <<serverVars, userId, subscriptionId, error, flowState, isOpen,
                   submissions, closed, backs, blocked>>

\* fetchVariant after the await (hook lines 32-44).
fetchSettles(outcome) ==
    /\ fetching = "pending"
    /\ fetching' = "settled"
    /\ loading' = FALSE
    /\ IF outcome.kind = "success"
       THEN variant' = outcome.variant /\ UNCHANGED error
       ELSE IF outcome.kind = "failure"
       THEN /\ error' = IF outcome.message # "" THEN outcome.message
                        ELSE "Failed to fetch variant"
            /\ UNCHANGED variant
       ELSE error' = "Network error" /\ UNCHANGED variant
    /\ UNCHANGED <<serverVars, userId, subscriptionId, flowState, isOpen, submissions, closed,
                   backs, blocked>>

\* --- what the component renders (lines 312-338) ---------------------------

LoadingShown == loading

ErrorShown == ~loading /\ error # ""

WizardShown == ~loading /\ error = "" /\ variant # "" /\ isOpen

\* The panel of step s is rendered.
At(s) == WizardShown /\ flowState.step = s

\* --- the hook: submitCancellation (hook lines 50-67) ----------------------

\* A template literal's rendering of a nullable string.
Rendered(j) == IF j.t = "string" THEN <<j.v>> ELSE <<j.t>>

\* submitCancellation, but no request is sent.
submitCancellationSilent(subs, accepted_downsell, reason) == subs

\* submitCancellation up to the await of fetch: one request is sent.
submitCancellation(subs, accepted_downsell, reason) ==
    Append(subs, [accepted_downsell |-> accepted_downsell, reason |-> reason,
                  outcome |-> "pending"])

SubmissionOutcomes == {"ok", "http", "network"}

\* submissionSettles, but a failed request is sent again.
submissionSettlesRetrying(k, outcome) ==
    /\ k \in 1..Len(submissions)
    /\ submissions[k].outcome = "pending"
    /\ submissions' =
          IF outcome = "ok"
          THEN [submissions EXCEPT ![k].outcome = "ok"]
          ELSE Append([submissions EXCEPT ![k].outcome = "logged"],
                      [submissions[k] EXCEPT !.outcome = "pending"])
    /\ UNCHANGED <<serverVars, userId, subscriptionId, variant, loading, error, fetching,
                   flowState, isOpen, closed, backs, blocked>>

\* submissionSettles, but a failure is put into the hook's error state.
submissionSettlesRaising(k, outcome) ==
    /\ k \in 1..Len(submissions)
    /\ submissions[k].outcome = "pending"
    /\ submissions' = [submissions EXCEPT ![k].outcome =
                          IF outcome = "ok" THEN "ok" ELSE "logged"]
    /\ error' = IF outcome = "ok" THEN error ELSE "Network error"
    /\ UNCHANGED <<serverVars, userId, subscriptionId, variant, loading, fetching,
                   flowState, isOpen, closed, backs, blocked>>

\* submitCancellation after the await: a failure is logged and swallowed.
submissionSettles(k, outcome) ==
    /\ k \in 1..Len(submissions)
    /\ submissions[k].outcome = "pending"
    /\ submissions' = [submissions EXCEPT ![k].outcome =
                          IF outcome = "ok" THEN "ok" ELSE "logged"]
    /\ UNCHANGED <<serverVars, userId, subscriptionId, variant, loading, error, fetching,
                   flowState, isOpen, closed, backs, blocked>>

\* --- the handlers of the component (lines 138-283) -------------------------

\* handleJobResponse, but with the two targets exchanged.
handleJobResponseSwapped(fs, hasJob) ==
    [fs EXCEPT !.hasJob = Bool(hasJob),
               !.step = IF hasJob THEN "retention-offer" ELSE "survey"]

handleJobResponse(fs, hasJob) ==
    [fs EXCEPT !.hasJob = Bool(hasJob),
               !.step = IF hasJob THEN "survey" ELSE "retention-offer"]

handleSurveySubmit(fs) == [fs EXCEPT !.step = "feedback", !.completedSteps = 1]

handleFeedbackSubmit(fs) == [fs EXCEPT !.step = "congratulations", !.completedSteps = 2]

\* handleCongratulationsNext, but the flow is sent round to the survey again.
handleCongratulationsNextToSurvey(fs) == [fs EXCEPT !.step = "survey", !.completedSteps = 3]

handleCongratulationsNext(fs) == [fs EXCEPT !.step = "visa-support", !.completedSteps = 3]

\* handleVisaSupportResponse, but every answer leads to visa-yes.
handleVisaSupportResponseToYes(fs, hasLawyer) ==
    [fs EXCEPT !.hasLawyer = Bool(hasLawyer), !.step = "visa-yes"]

handleVisaSupportResponse(fs, hasLawyer) ==
    [fs EXCEPT !.hasLawyer = Bool(hasLawyer),
               !.step = IF hasLawyer THEN "visa-yes" ELSE "visa-no"]

\* handleVisaDetailsSubmit, but without the test of hasLawyer.
handleVisaDetailsSubmitToSuccess(fs) == [fs EXCEPT !.step = "success"]

handleVisaDetailsSubmit(fs) ==
    [fs EXCEPT !.step = IF Truthy(fs.hasLawyer) THEN "success" ELSE "success-alt"]

\* handleRetentionOffer, but an accepted offer goes on to the survey.
handleRetentionOfferToSurvey(fs, accepted) ==
    [fs EXCEPT !.step = "retention-survey", !.completedSteps = 1]

handleRetentionOffer(fs, accepted) ==
    [fs EXCEPT !.step = IF accepted THEN "retention-accepted" ELSE "retention-survey",
               !.completedSteps = IF accepted THEN 0 ELSE 1]

handleRetentionSurveySubmit(fs) ==
    [fs EXCEPT !.step = "retention-reason", !.completedSteps = 2]

\* stepMap, but "Other" is routed like "Decided not to move".
stepMapOtherToMove ==
    "Too expensive" :> "retention-price"
        @@ "Platform not helpful" :> "retention-platform"
        @@ "Not enough relevant jobs" :> "retention-jobs"
        @@ "Decided not to move" :> "retention-move"
        @@ "Other" :> "retention-move"

stepMap ==
    "Too expensive" :> "retention-price"
        @@ "Platform not helpful" :> "retention-platform"
        @@ "Not enough relevant jobs" :> "retention-jobs"
        @@ "Decided not to move" :> "retention-move"
        @@ "Other" :> "retention-other"

\* nextStep, but without the fallback.
nextStepNoFallback(reason) ==
    IF Truthy(reason) /\ reason.v \in DOMAIN stepMap THEN stepMap[reason.v] ELSE "undefined"

\* reason && stepMap[reason] ? stepMap[reason] : "retention-final"
nextStep(reason) ==
    IF Truthy(reason) /\ reason.v \in DOMAIN stepMap
    THEN stepMap[reason.v]
    ELSE "retention-final"

handleRetentionReasonSubmit(fs) ==
    [fs EXCEPT !.step = nextStep(fs.retentionData.cancellationReason),
               !.completedSteps = 3]

handleReasonFeedbackSubmit(fs) == [fs EXCEPT !.step = "retention-final", !.completedSteps = 3]

handleRetentionPriceSubmit(fs) == [fs EXCEPT !.step = "retention-final", !.completedSteps = 3]

\* backMap, but with an entry for a step reached by reason routing.
backMapFromPlatform ==
    "survey" :> "job-question"
        @@ "feedback" :> "survey"
        @@ "congratulations" :> "feedback"
        @@ "visa-support" :> "congratulations"
        @@ "visa-yes" :> "visa-support"
        @@ "visa-no" :> "visa-support"
        @@ "retention-offer" :> "job-question"
        @@ "retention-survey" :> "retention-offer"
        @@ "retention-reason" :> "retention-survey"
        @@ "retention-price" :> "retention-reason"
        @@ "retention-platform" :> "retention-reason"

\* backMap, but with an entry for a terminal step.
backMapFromFinal ==
    "survey" :> "job-question"
        @@ "retention-reason" :> "retention-survey"
        @@ "retention-final" :> "retention-reason"

backMap ==
    "survey" :> "job-question"
        @@ "feedback" :> "survey"
        @@ "congratulations" :> "feedback"
        @@ "visa-support" :> "congratulations"
        @@ "visa-yes" :> "visa-support"
        @@ "visa-no" :> "visa-support"
        @@ "retention-offer" :> "job-question"
        @@ "retention-survey" :> "retention-offer"
        @@ "retention-reason" :> "retention-survey"
        @@ "retention-price" :> "retention-reason"

\* backMap[flowState.step]: undefined for a step that is no key of the map.
prevStepOf(step) == IF step \in DOMAIN backMap THEN backMap[step] ELSE "undefined"

\* goBack, but the answers collected so far are dropped on the way back.
goBackResetting(fs) ==
    IF prevStepOf(fs.step) # "undefined"
    THEN [initialState EXCEPT !.step = prevStepOf(fs.step)]
    ELSE fs

\* goBack, but hasLawyer is kept on the way back to visa-support.
goBackKeepingLawyer(fs) ==
    IF prevStepOf(fs.step) # "undefined" THEN [fs EXCEPT !.step = prevStepOf(fs.step)] ELSE fs

\* goBack without the `if (prevStep)` test.
goBackUnguarded(fs) ==
    [fs EXCEPT !.step = prevStepOf(fs.step),
               !.hasLawyer = IF prevStepOf(fs.step) = "visa-support" THEN Null ELSE @]

goBack(fs) ==
    IF prevStepOf(fs.step) # "undefined"
    THEN [fs EXCEPT !.step = prevStepOf(fs.step),
                    !.hasLawyer = IF prevStepOf(fs.step) = "visa-support" THEN Null ELSE @]
    ELSE fs

\* showBackButton, but the button is rendered at every step.
showBackButtonAlways(fs) == fs.step \in FlowSteps

\* const showBackButton = !["job-question", "retention-offer"].includes(step)
showBackButton(fs) == fs.step \notin {"job-question", "retention-offer"}

\* The reasons sent with a submission.
VisaFlowReason == <<"Completed visa support flow">>

AcceptedReason == <<"Accepted retention offer">>

\* PriceReason, but with the maxPrice of the first render (a callback that
\* is not renewed when maxPrice changes).
PriceReasonStale(fs) ==
    <<"Too expensive - willing to pay: $">> \o initialState.retentionData.maxPrice

\* `Too expensive - willing to pay: $${maxPrice}`
PriceReason(fs) == <<"Too expensive - willing to pay: $">> \o fs.retentionData.maxPrice

\* FeedbackReason, but with the cancellationReason of the first render.
FeedbackReasonStale(fs) ==
    Rendered(initialState.retentionData.cancellationReason) \o <<": ">>
        \o fs.retentionData.reasonFeedback

\* `${cancellationReason}: ${reasonFeedback}`
FeedbackReason(fs) ==
    Rendered(fs.retentionData.cancellationReason) \o <<": ">>
        \o fs.retentionData.reasonFeedback

\* --- user gestures on the rendered wizard ---------------------------------

\* A gesture leaves flow state fs2 and submissions subs2; `name` is the
\* disabled button that was clicked, "" for any other gesture.
Gesture(fs2, subs2, name) ==
    /\ flowState' = fs2
    /\ submissions' = subs2
    /\ blocked' = name
    /\ UNCHANGED <<serverVars, userId, subscriptionId, variant, loading, error, fetching, isOpen,
                   closed, backs>>

\* Button, but a disabled button still runs its handler.
ButtonIgnoringDisabled(enabled, name, fs2, subs2) == Gesture(fs2, subs2, "")

\* A click on a button with a disabled attribute: a disabled button gets no
\* click event, so its handler does not run.
Button(enabled, name, fs2, subs2) ==
    IF enabled THEN Gesture(fs2, subs2, "") ELSE Gesture(flowState, submissions, name)

ClickJobResponse(hasJob) ==
    /\ At("job-question")
    /\ Gesture(handleJobResponse(flowState, hasJob), submissions, "")

\* updateSurveyData(field, value) from the option buttons of the survey.
SelectSurveyOption(field, value) ==
    /\ At("survey")
    /\ Gesture([flowState EXCEPT !.surveyData[field] = value], submissions, "")

ClickSurveyContinue ==
    /\ At("survey")
    /\ Button(isSurveyValid(flowState), "handleSurveySubmit",
              handleSurveySubmit(flowState), submissions)

\* handleFeedbackChange
TypeFeedback(text) ==
    /\ At("feedback")
    /\ Gesture([flowState EXCEPT !.feedback = text], submissions, "")

ClickFeedbackContinue ==
    /\ At("feedback")
    /\ Button(isFeedbackValid(flowState), "handleFeedbackSubmit",
              handleFeedbackSubmit(flowState), submissions)

\* The lawyer radios of the congratulations step (lines 551-566).
SelectLawyer(hasLawyer) ==
    /\ At("congratulations")
    /\ Gesture([flowState EXCEPT !.hasLawyer = Bool(hasLawyer)], submissions, "")

ClickCongratulationsNext ==
    /\ At("congratulations")
    /\ Button(isLawyerAnswered(flowState), "handleCongratulationsNext",
              handleCongratulationsNext(flowState), submissions)

\* The lawyer radios of the visa-support step (lines 597-612).
SelectVisaLawyer(hasLawyer) ==
    /\ At("visa-support")
    /\ Gesture(handleVisaSupportResponse(flowState, hasLawyer), submissions, "")

\* The button of the visa-support step (lines 618-625).
ClickVisaSupportContinue ==
    /\ At("visa-support")
    /\ Button(isLawyerAnswered(flowState), "handleVisaSupportResponse",
              handleVisaSupportResponse(flowState, Truthy(flowState.hasLawyer)),
              submissions)

\* handleVisaTypeChange
TypeVisaType(text) ==
    /\ (At("visa-yes") \/ At("visa-no"))
    /\ Gesture([flowState EXCEPT !.visaType = text], submissions, "")

ClickVisaDetailsSubmit ==
    /\ (At("visa-yes") \/ At("visa-no"))
    /\ Button(isVisaTypeValid(flowState), "handleVisaDetailsSubmit",
              handleVisaDetailsSubmit(flowState),
              submitCancellation(submissions, FALSE, VisaFlowReason))

\* OfferSteps, but the panel of retention-price has no "Get 50% off" button.
OfferStepsWithoutPrice ==
    {"retention-offer", "retention-survey", "retention-reason",
     "retention-platform", "retention-jobs", "retention-move", "retention-other"}

\* The steps whose panel has a "Get 50% off" button.
OfferSteps ==
    {"retention-offer", "retention-survey", "retention-reason", "retention-price",
     "retention-platform", "retention-jobs", "retention-move", "retention-other"}

ClickAcceptOffer ==
    /\ WizardShown
    /\ flowState.step \in OfferSteps
    /\ Gesture(handleRetentionOffer(flowState, TRUE),
               submitCancellation(submissions, TRUE, AcceptedReason), "")

\* "No thanks" on the retention offer.
ClickDeclineOffer ==
    /\ At("retention-offer")
    /\ Gesture(handleRetentionOffer(flowState, FALSE), submissions, "")

\* updateRetentionData(field, value) from the option buttons of the
\* retention survey and the radios of the reason step.
SelectRetentionOption(field, value) ==
    /\ At("retention-survey")
    /\ Gesture([flowState EXCEPT !.retentionData[field] = value], submissions, "")

SelectReason(reason) ==
    /\ At("retention-reason")
    /\ Gesture([flowState EXCEPT !.retentionData.cancellationReason = reason],
               submissions, "")

ClickRetentionSurveyContinue ==
    /\ At("retention-survey")
    /\ Button(isRetentionSurveyValid(flowState), "handleRetentionSurveySubmit",
              handleRetentionSurveySubmit(flowState), submissions)

ClickRetentionReasonContinue ==
    /\ At("retention-reason")
    /\ Button(isReasonSelected(flowState), "handleRetentionReasonSubmit",
              handleRetentionReasonSubmit(flowState), submissions)

\* handleMaxPriceChange
TypeMaxPrice(text) ==
    /\ At("retention-price")
    /\ Gesture([flowState EXCEPT !.retentionData.maxPrice = text], submissions, "")

ClickRetentionPriceSubmit ==
    /\ At("retention-price")
    /\ Button(isMaxPriceValid(flowState), "handleRetentionPriceSubmit",
              handleRetentionPriceSubmit(flowState),
              submitCancellation(submissions, FALSE, PriceReason(flowState)))

\* The steps that ask for feedback on the selected reason.
ReasonFeedbackSteps ==
    {"retention-platform", "retention-jobs", "retention-move", "retention-other"}

\* handleReasonFeedbackChange
TypeReasonFeedback(text) ==
    /\ WizardShown
    /\ flowState.step \in ReasonFeedbackSteps
    /\ Gesture([flowState EXCEPT !.retentionData.reasonFeedback = text], submissions, "")

ClickReasonFeedbackSubmit ==
    /\ WizardShown
    /\ flowState.step \in ReasonFeedbackSteps
    /\ Button(isReasonFeedbackValid(flowState), "handleReasonFeedbackSubmit",
              handleReasonFeedbackSubmit(flowState),
              submitCancellation(submissions, FALSE, FeedbackReason(flowState)))

\* The flow state after a back gesture: goBack runs only where the back
\* button of the header is rendered (lines 349-357).
backGesture(fs) == IF showBackButton(fs) THEN goBack(fs) ELSE fs

\* The user goes for the back button of the header; where it is not rendered
\* there is nothing to click and the gesture is recorded in `blocked`.
ClickBack ==
    /\ WizardShown
    /\ backGesture(flowState) # flowState => backs < MaxBacks
    /\ flowState' = backGesture(flowState)
    /\ backs' = IF backGesture(flowState) # flowState THEN backs + 1 ELSE backs
    /\ blocked' = IF showBackButton(flowState) THEN "" ELSE "goBack"
    /\ UNCHANGED <<serverVars, userId, subscriptionId, variant, loading, error, fetching, isOpen,
                   submissions, closed>>

\* closeModal: the X of the header and the button of retention-accepted.
ClickClose ==
    /\ WizardShown
    /\ isOpen' = FALSE
    /\ closed' = "undefined"
    /\ blocked' = ""
    /\ UNCHANGED <<serverVars, userId, subscriptionId, variant, loading, error, fetching, flowState,
                   submissions, backs>>

\* FinishSteps, but the button of retention-accepted calls onClose(true) too.
FinishStepsWithAccepted == {"success", "success-alt", "retention-final", "retention-accepted"}

\* The steps whose button calls onClose(true).
FinishSteps == {"success", "success-alt", "retention-final"}

ClickFinish ==
    /\ WizardShown
    /\ flowState.step \in FinishSteps
    /\ closed' = "true"
    /\ blocked' = ""
    /\ UNCHANGED <<serverVars, userId, subscriptionId, variant, loading, error, fetching, flowState,
                   isOpen, submissions, backs>>

\* The Close button of the error screen: onClick={onClose}, so onClose gets
\* the click event as its argument.
ClickErrorClose ==
    /\ ErrorShown
    /\ closed' = "event"
    /\ blocked' = ""
    /\ UNCHANGED <<serverVars, userId, subscriptionId, variant, loading, error, fetching, flowState,
                   isOpen, submissions, backs>>

SurveyFields == {"rolesApplied", "companiesEmailed", "companiesInterviewed"}

OptionsOf(field) == IF field = "companiesInterviewed" THEN InterviewInputs ELSE RoleInputs

FlowNext ==
    \/ fetchVariant
    \/ \E outcome \in FetchOutcomes : fetchSettles(outcome)
    \/ \E hasJob \in BOOLEAN : ClickJobResponse(hasJob)
    \/ \E found \in BOOLEAN : SelectSurveyOption("foundJobWithMM", Bool(found))
    \/ \E field \in SurveyFields :
          \E value \in OptionsOf(field) : SelectSurveyOption(field, value)
    \/ ClickSurveyContinue
    \/ \E text \in FeedbackInputs : TypeFeedback(text)
    \/ ClickFeedbackContinue
    \/ \E hasLawyer \in BOOLEAN : SelectLawyer(hasLawyer)
    \/ ClickCongratulationsNext
    \/ \E hasLawyer \in BOOLEAN : SelectVisaLawyer(hasLawyer)
    \/ ClickVisaSupportContinue
    \/ \E text \in VisaTypeInputs : TypeVisaType(text)
    \/ ClickVisaDetailsSubmit
    \/ ClickAcceptOffer
    \/ ClickDeclineOffer
    \/ \E field \in SurveyFields :
          \E value \in OptionsOf(field) : SelectRetentionOption(field, value)
    \/ ClickRetentionSurveyContinue
    \/ \E reason \in ReasonInputs : SelectReason(reason)
    \/ ClickRetentionReasonContinue
    \/ \E text \in MaxPriceInputs : TypeMaxPrice(text)
    \/ ClickRetentionPriceSubmit
    \/ \E text \in FeedbackInputs : TypeReasonFeedback(text)
    \/ ClickReasonFeedbackSubmit
    \/ ClickBack
    \/ ClickClose
    \/ ClickFinish
    \/ ClickErrorClose
    \/ \E k \in 1..Len(submissions), outcome \in SubmissionOutcomes :
          submissionSettles(k, outcome)

\* ------------------------------------------------------------------------
\* Specifications
\* ------------------------------------------------------------------------

\* The route alone: the client stays as mounted with its default props.
InitServer == ServerInit /\ FlowInitWith("demo-user", "demo-subscription")

SpecAssign == InitServer /\ [][AssignNext]_vars

SpecSequential == InitServer /\ [][SequentialNext]_vars

SpecServer == InitServer /\ [][ServerNext]_vars

SpecPlain == InitServer /\ [][PlainNext]_vars

\* The values of RetentionData.cancellationReason (string | null) that
\* handleRetentionReasonSubmit is applied to: null, the five reasons, the
\* empty string and a string that is no reason.
ReasonArguments == {Null, Str(""), Str("Something else")} \cup ReasonInputs

\* handleRetentionReasonSubmit applied as a function of the flow state, its
\* button set aside.
applyReasonSubmit ==
    /\ flowState.step = "retention-reason"
    /\ flowState' = handleRetentionReasonSubmit(flowState)
    /\ UNCHANGED <<serverVars, userId, subscriptionId, variant, loading, error, fetching,
                   isOpen, submissions, closed, backs, blocked>>

\* The wizard on retention-reason, with the retention survey answered, any
\* cancellationReason and any price typed before.
InitReasonSubmit ==
    /\ ServerInit
    /\ userId = "demo-user" /\ subscriptionId = "demo-subscription"
    /\ variant \in Variants
    /\ loading = FALSE /\ error = "" /\ fetching = "settled"
    /\ isOpen = TRUE /\ submissions = <<>> /\ closed = ""
    /\ backs \in 0..MaxBacks
    /\ blocked = ""
    /\ \E reason \in ReasonArguments, price \in MaxPriceInputs :
          flowState =
              [initialState EXCEPT
                  !.step = "retention-reason",
                  !.hasJob = Bool(FALSE),
                  !.completedSteps = 2,
                  !.retentionData =
                      [rolesApplied |-> Str(Head(ROLE_OPTIONS)),
                       companiesEmailed |-> Str(Head(ROLE_OPTIONS)),
                       companiesInterviewed |-> Str(Head(INTERVIEW_OPTIONS)),
                       cancellationReason |-> reason,
                       maxPrice |-> price,
                       reasonFeedback |-> <<>>]]

\* handleRetentionReasonSubmit as a function of the flow state.
SpecReasonSubmit == InitReasonSubmit /\ [][applyReasonSubmit]_vars

\* One mounted cancellation flow, the hook and the component; the route is
\* represented by the responses the hook can get.
Init == FlowInit /\ ServerInit

SpecFlow == Init /\ [][FlowNext]_vars

\* --- two flows side by side ------------------------------------------------

\* Two mounted flows that get the same user gestures, one whose variant
\* request was answered with A and one with B. In this specification every
\* client variable holds one value per flow, indexed by that variant.
Instance(i) ==
    [variant |-> variant[i], loading |-> loading[i], error |-> error[i],
     flowState |-> flowState[i], isOpen |-> isOpen[i], submissions |-> submissions[i],
     closed |-> closed[i], backs |-> backs[i], blocked |-> blocked[i]]

\* if (loading) ...; if (error) ...; if (!variant || !isOpen) return null
Shown(inst) == ~inst.loading /\ inst.error = "" /\ inst.variant # "" /\ inst.isOpen

\* The panel of one of the steps is rendered.
Panel(inst, steps) == Shown(inst) /\ inst.flowState.step \in steps

\* A gesture on a control of the panels of `steps`: where the control is
\* rendered its handler leaves fs2 and subs2, elsewhere there is nothing to hit.
Control(inst, steps, fs2, subs2) ==
    IF Panel(inst, steps)
    THEN [inst EXCEPT !.flowState = fs2, !.submissions = subs2, !.blocked = ""]
    ELSE inst

\* A click on a button with a disabled attribute.
Pressed(inst, steps, enabled, name, fs2, subs2) ==
    IF Panel(inst, steps) /\ ~enabled
    THEN [inst EXCEPT !.blocked = name]
    ELSE Control(inst, steps, fs2, subs2)

\* OfferShown, but only the flow of variant B is offered the discount.
OfferShownToB(inst) == Panel(inst, OfferSteps) /\ inst.variant = "B"

\* The "Get 50% off" button is rendered.
OfferShown(inst) == Panel(inst, OfferSteps)

AcceptOffer(inst) ==
    IF OfferShown(inst)
    THEN [inst EXCEPT !.flowState = handleRetentionOffer(inst.flowState, TRUE),
                      !.submissions = submitCancellation(inst.submissions, TRUE, AcceptedReason),
                      !.blocked = ""]
    ELSE inst

\* The back gesture on one flow.
Back(inst) ==
    IF ~Shown(inst) \/ (backGesture(inst.flowState) # inst.flowState /\ inst.backs >= MaxBacks)
    THEN inst
    ELSE [inst EXCEPT !.flowState = backGesture(inst.flowState),
                      !.backs = IF backGesture(inst.flowState) # inst.flowState
                                THEN @ + 1 ELSE @,
                      !.blocked = IF showBackButton(inst.flowState) THEN "" ELSE "goBack"]

\* closeModal on one flow.
Close(inst) ==
    IF Shown(inst)
    THEN [inst EXCEPT !.isOpen = FALSE, !.closed = "undefined", !.blocked = ""]
    ELSE inst

\* onClose(true) on one flow.
Finish(inst) ==
    IF Panel(inst, FinishSteps) THEN [inst EXCEPT !.closed = "true", !.blocked = ""] ELSE inst

\* One gesture of the user, made on both flows.
Both(Op(_)) ==
    /\ \E i \in Variants : Op(Instance(i)) # Instance(i)
    /\ flowState' = [i \in Variants |-> Op(Instance(i)).flowState]
    /\ submissions' = [i \in Variants |-> Op(Instance(i)).submissions]
    /\ isOpen' = [i \in Variants |-> Op(Instance(i)).isOpen]
    /\ closed' = [i \in Variants |-> Op(Instance(i)).closed]
    /\ backs' = [i \in Variants |-> Op(Instance(i)).backs]
    /\ blocked' = [i \in Variants |-> Op(Instance(i)).blocked]
    /\ UNCHANGED <<serverVars, userId, subscriptionId, variant, loading, error, fetching>>

VisaSteps == {"visa-yes", "visa-no"}

TwinNext ==
    \/ \E hasJob \in BOOLEAN :
          Both(LAMBDA inst : Control(inst, {"job-question"},
                                     handleJobResponse(inst.flowState, hasJob),
                                     inst.submissions))
    \/ \E found \in BOOLEAN :
          Both(LAMBDA inst : Control(inst, {"survey"},
                                     [inst.flowState EXCEPT
                                         !.surveyData.foundJobWithMM = Bool(found)],
                                     inst.submissions))
    \/ \E field \in SurveyFields :
          \E value \in OptionsOf(field) :
              Both(LAMBDA inst : Control(inst, {"survey"},
                                         [inst.flowState EXCEPT !.surveyData[field] = value],
                                         inst.submissions))
    \/ Both(LAMBDA inst : Pressed(inst, {"survey"}, isSurveyValid(inst.flowState),
                                  "handleSurveySubmit",
                                  handleSurveySubmit(inst.flowState), inst.submissions))
    \/ \E text \in FeedbackInputs :
          Both(LAMBDA inst : Control(inst, {"feedback"},
                                     [inst.flowState EXCEPT !.feedback = text],
                                     inst.submissions))
    \/ Both(LAMBDA inst : Pressed(inst, {"feedback"}, isFeedbackValid(inst.flowState),
                                  "handleFeedbackSubmit",
                                  handleFeedbackSubmit(inst.flowState), inst.submissions))
    \/ \E hasLawyer \in BOOLEAN :
          Both(LAMBDA inst : Control(inst, {"congratulations"},
                                     [inst.flowState EXCEPT !.hasLawyer = Bool(hasLawyer)],
                                     inst.submissions))
    \/ Both(LAMBDA inst : Pressed(inst, {"congratulations"},
                                  isLawyerAnswered(inst.flowState),
                                  "handleCongratulationsNext",
                                  handleCongratulationsNext(inst.flowState),
                                  inst.submissions))
    \/ \E hasLawyer \in BOOLEAN :
          Both(LAMBDA inst : Control(inst, {"visa-support"},
                                     handleVisaSupportResponse(inst.flowState, hasLawyer),
                                     inst.submissions))
    \/ Both(LAMBDA inst : Pressed(inst, {"visa-support"}, isLawyerAnswered(inst.flowState),
                                  "handleVisaSupportResponse",
                                  handleVisaSupportResponse(inst.flowState,
                                                            Truthy(inst.flowState.hasLawyer)),
                                  inst.submissions))
    \/ \E text \in VisaTypeInputs :
          Both(LAMBDA inst : Control(inst, VisaSteps,
                                     [inst.flowState EXCEPT !.visaType = text],
                                     inst.submissions))
    \/ Both(LAMBDA inst : Pressed(inst, VisaSteps, isVisaTypeValid(inst.flowState),
                                  "handleVisaDetailsSubmit",
                                  handleVisaDetailsSubmit(inst.flowState),
                                  submitCancellation(inst.submissions, FALSE, VisaFlowReason)))
    \/ Both(AcceptOffer)
    \/ Both(LAMBDA inst : Control(inst, {"retention-offer"},
                                  handleRetentionOffer(inst.flowState, FALSE),
                                  inst.submissions))
    \/ \E field \in SurveyFields :
          \E value \in OptionsOf(field) :
              Both(LAMBDA inst : Control(inst, {"retention-survey"},
                                         [inst.flowState EXCEPT !.retentionData[field] = value],
                                         inst.submissions))
    \/ Both(LAMBDA inst : Pressed(inst, {"retention-survey"},
                                  isRetentionSurveyValid(inst.flowState),
                                  "handleRetentionSurveySubmit",
                                  handleRetentionSurveySubmit(inst.flowState),
                                  inst.submissions))
    \/ \E reason \in ReasonInputs :
          Both(LAMBDA inst : Control(inst, {"retention-reason"},
                                     [inst.flowState EXCEPT
                                         !.retentionData.cancellationReason = reason],
                                     inst.submissions))
    \/ Both(LAMBDA inst : Pressed(inst, {"retention-reason"},
                                  isReasonSelected(inst.flowState),
                                  "handleRetentionReasonSubmit",
                                  handleRetentionReasonSubmit(inst.flowState),
                                  inst.submissions))
    \/ \E text \in MaxPriceInputs :
          Both(LAMBDA inst : Control(inst, {"retention-price"},
                                     [inst.flowState EXCEPT !.retentionData.maxPrice = text],
                                     inst.submissions))
    \/ Both(LAMBDA inst : Pressed(inst, {"retention-price"}, isMaxPriceValid(inst.flowState),
                                  "handleRetentionPriceSubmit",
                                  handleRetentionPriceSubmit(inst.flowState),
                                  submitCancellation(inst.submissions, FALSE,
                                                     PriceReason(inst.flowState))))
    \/ \E text \in FeedbackInputs :
          Both(LAMBDA inst : Control(inst, ReasonFeedbackSteps,
                                     [inst.flowState EXCEPT
                                         !.retentionData.reasonFeedback = text],
                                     inst.submissions))
    \/ Both(LAMBDA inst : Pressed(inst, ReasonFeedbackSteps,
                                  isReasonFeedbackValid(inst.flowState),
                                  "handleReasonFeedbackSubmit",
                                  handleReasonFeedbackSubmit(inst.flowState),
                                  submitCancellation(inst.submissions, FALSE,
                                                     FeedbackReason(inst.flowState))))
    \/ Both(Back)
    \/ Both(Close)
    \/ Both(Finish)

\* Both variant requests have been answered: one flow holds A, the other B.
TwinInit ==
    /\ ServerInit
    /\ userId = [i \in Variants |-> "demo-user"]
    /\ subscriptionId = [i \in Variants |-> "demo-subscription"]
    /\ variant = [i \in Variants |-> i]
    /\ loading = [i \in Variants |-> FALSE]
    /\ error = [i \in Variants |-> ""]
    /\ fetching = [i \in Variants |-> "settled"]
    /\ flowState = [i \in Variants |-> initialState]
    /\ isOpen = [i \in Variants |-> TRUE]
    /\ submissions = [i \in Variants |-> <<>>]
    /\ closed = [i \in Variants |-> ""]
    /\ backs = [i \in Variants |-> 0]
    /\ blocked = [i \in Variants |-> ""]

SpecTwins == TwinInit /\ [][TwinNext]_vars

\* --- a user who never goes back ----------------------------------------------

\* The wizard as the user sees it first: the variant request has been
\* answered with a variant.
InitForward ==
    /\ ServerInit
    /\ userId = "demo-user" /\ subscriptionId = "demo-subscription"
    /\ variant \in Variants
    /\ loading = FALSE /\ error = "" /\ fetching = "settled"
    /\ flowState = initialState
    /\ isOpen = TRUE /\ submissions = <<>> /\ closed = ""
    /\ backs = 0 /\ blocked = ""

\* The gestures of a user who never uses the back button.
ForwardNext ==
    \/ \E hasJob \in BOOLEAN : ClickJobResponse(hasJob)
    \/ \E found \in BOOLEAN : SelectSurveyOption("foundJobWithMM", Bool(found))
    \/ \E field \in SurveyFields :
          \E value \in OptionsOf(field) : SelectSurveyOption(field, value)
    \/ ClickSurveyContinue
    \/ \E text \in FeedbackInputs : TypeFeedback(text)
    \/ ClickFeedbackContinue
    \/ \E hasLawyer \in BOOLEAN : SelectLawyer(hasLawyer)
    \/ ClickCongratulationsNext
    \/ \E hasLawyer \in BOOLEAN : SelectVisaLawyer(hasLawyer)
    \/ ClickVisaSupportContinue
    \/ \E text \in VisaTypeInputs : TypeVisaType(text)
    \/ ClickVisaDetailsSubmit
    \/ ClickAcceptOffer
    \/ ClickDeclineOffer
    \/ \E field \in SurveyFields :
          \E value \in OptionsOf(field) : SelectRetentionOption(field, value)
    \/ ClickRetentionSurveyContinue
    \/ \E reason \in ReasonInputs : SelectReason(reason)
    \/ ClickRetentionReasonContinue
    \/ \E text \in MaxPriceInputs : TypeMaxPrice(text)
    \/ ClickRetentionPriceSubmit
    \/ \E text \in FeedbackInputs : TypeReasonFeedback(text)
    \/ ClickReasonFeedbackSubmit
    \/ ClickClose
    \/ ClickFinish
    \/ \E k \in 1..Len(submissions), outcome \in SubmissionOutcomes :
          submissionSettles(k, outcome)

\* A gesture that moves the wizard to another step.
Advance == ForwardNext /\ flowState'.step # flowState.step

\* The user keeps going: a forward button that is enabled again and again is
\* clicked, and an answer that can be given again and again is given (every
\* question gets an answer, every text field a text that its guard accepts).
UserKeepsGoing ==
    /\ SF_vars(Advance)
    /\ SF_vars(\E found \in BOOLEAN : SelectSurveyOption("foundJobWithMM", Bool(found)))
    /\ \A field \in SurveyFields :
          /\ SF_vars(\E value \in OptionsOf(field) : SelectSurveyOption(field, value))
          /\ SF_vars(\E value \in OptionsOf(field) : SelectRetentionOption(field, value))
    /\ SF_vars(TypeFeedback(Text(MIN_FEEDBACK_LENGTH)))
    /\ SF_vars(\E hasLawyer \in BOOLEAN : SelectLawyer(hasLawyer))
    /\ SF_vars(TypeVisaType(<<"H", "1", "B">>))
    /\ SF_vars(\E reason \in ReasonInputs : SelectReason(reason))
    /\ SF_vars(TypeMaxPrice(<<"5">>))
    /\ SF_vars(TypeReasonFeedback(Text(MIN_FEEDBACK_LENGTH)))

SpecForward == InitForward /\ [][ForwardNext]_vars /\ UserKeepsGoing

\* ------------------------------------------------------------------------
\* Properties of the route
\* ------------------------------------------------------------------------

Pair(r) == <<r.user_id, r.subscription_id>>

\* The variant of the first row persisted for a pair, "" when it has no row.
PersistedVariant(u, s) ==
    IF Matching(cancellations, u, s) = {}
    THEN ""
    ELSE LET first == CHOOSE k \in Matching(cancellations, u, s) :
                          \A m \in Matching(cancellations, u, s) : k <= m
         IN  cancellations[first].downsell_variant

\* C1: getOrAssignVariant is idempotent per identity pair: when the calls are
\* made one after the other, every call that returns a variant returns the
\* variant that the first call for the pair returned.
C1_SequentialCallsReturnFirstVariant ==
    lastResponse.kind = "variant" => lastResponse.variant = firstVariant[Pair(lastResponse)]

\* C2: after concurrent first requests for a pair (two inserts pending at
\* once), a call that looks the pair up while a row is stored returns the
\* variant of the first persisted row: it ends at the lookup, and the variant
\* it answers with is the stored one.
C2_LaterCallsReturnFirstPersistedRow ==
    [][\A h \in InFlight, outcome \in StorageOutcomes :
          ( /\ Lookup(h, outcome)
            /\ Pair(h) \in raced
            /\ PersistedVariant(h.user_id, h.subscription_id) # "" )
          => /\ BagCardinality(calls') < BagCardinality(calls)
             /\ lastResponse'.kind = "variant" =>
                    lastResponse'.variant = PersistedVariant(h.user_id, h.subscription_id)
      ]_serverVars

\* C3: the downsell_variant of a stored record never changes: every step of the
\* route (variant request or submission, for any pair) keeps every existing
\* row in place with its identity pair and its variant.
C3_StoredVariantNeverChanges ==
    [][\A k \in 1..Len(cancellations) :
          /\ k <= Len(cancellations')
          /\ cancellations'[k].user_id = cancellations[k].user_id
          /\ cancellations'[k].subscription_id = cancellations[k].subscription_id
          /\ cancellations'[k].downsell_variant = cancellations[k].downsell_variant
      ]_serverVars

\* C3 witness: both pairs have a record, a submission has updated one of them,
\* and a variant request has been answered afterwards.
C3_Witness ==
    /\ Len(cancellations) = 2
    /\ \E k \in 1..Len(cancellations) :
          /\ cancellations[k].accepted_downsell # Null
          /\ cancellations[k].downsell_variant = "B"
          /\ lastResponse.kind = "variant"
          /\ Pair(lastResponse) = Pair(cancellations[k])

C5_StorageFailureYieldsNoVariant ==
    lastResponse.kind = "variant" =>
        /\ ~lastResponse.failed
        /\ lastResponse.variant =
              PersistedVariant(lastResponse.user_id, lastResponse.subscription_id)

\* C22: a valid submission with accepted_downsell=false that is answered
\* with success has set its subscription to pending_cancellation, and a
\* subscription status changes only in the handling of such a submission.
C22_PendingOnlyOnDeclinedSubmission ==
    [][ /\ \A h \in InFlight, outcome \in StorageOutcomes :
              (UpdateSubscription(h, outcome) /\ lastResponse'.success)
                  => subscriptions'[h.subscription_id] = "pending_cancellation"
        /\ subscriptions' # subscriptions
              => \E h \in InFlight :
                    /\ h.pc = "subscription"
                    /\ h.accepted_downsell = Bool(FALSE)
                    /\ subscriptions' = MarkPending(subscriptions, h.subscription_id)
      ]_vars

\* C30: a request during whose handling a storage operation failed, the update
\* of the cancellation or of the subscription record included, is answered
\* with status 500 and success=false, never with success=true.
C30_FailureAnswered500 ==
    lastResponse.failed => (lastResponse.status = 500 /\ ~lastResponse.success)

\* C31: when a submission is answered with success=true, the cancellations
\* table has a record of the request's identity pair that holds the submitted
\* accepted_downsell and the submitted reason, whether or not a variant
\* request had created a record for the pair before.
C31_SuccessMeansRecorded ==
    [][\A h \in InFlight :
          (Respond(h, lastResponse') /\ lastResponse'.kind = "submit" /\ lastResponse'.success)
              => \E k \in Matching(cancellations', h.user_id, h.subscription_id) :
                    /\ cancellations'[k].accepted_downsell = h.accepted_downsell
                    /\ (h.pc = "update" /\ h.reason # Undefined)
                          => cancellations'[k].reason = h.reason
      ]_vars

\* C32: every variant that getOrAssignVariant returns equals the variant
\* persisted for the identity pair, also under concurrent first requests for
\* the pair: the loser of the insert race does not return its own draw. Stated
\* of the calls whose storage operations all succeeded (the others are C5's).
C32_ReturnedVariantIsPersisted ==
    (lastResponse.kind = "variant" /\ ~lastResponse.failed)
        => lastResponse.variant =
              PersistedVariant(lastResponse.user_id, lastResponse.subscription_id)

\* C39: no request moves a subscription from pending_cancellation back to
\* active: a subscription that is pending stays pending in every step, and a
\* later submission with accepted_downsell=true for the pair writes the
\* cancellation record and leaves the subscription as it is.
C39_PendingNeverBackToActive ==
    [][ /\ \A s \in Subs :
              subscriptions[s] = "pending_cancellation"
                  => subscriptions'[s] = "pending_cancellation"
        /\ \A h \in InFlight :
              (Update(h, "ok") /\ h.accepted_downsell = Bool(TRUE))
                  => /\ subscriptions' = subscriptions
                     /\ lastResponse'.kind = "submit"
                     /\ \A k \in Matching(cancellations, h.user_id, h.subscription_id) :
                           cancellations'[k].accepted_downsell = Bool(TRUE)
      ]_vars

\* After a declined submission had set the subscription to pending, an
\* accepted submission for the pair was recorded and answered.
C39_Witness ==
    /\ \A s \in Subs : subscriptions[s] = "pending_cancellation"
    /\ lastResponse.kind = "submit"
    /\ \E k \in 1..Len(cancellations) :
          /\ cancellations[k].accepted_downsell = Bool(TRUE)
          /\ cancellations[k].reason = Str("r")
          /\ Pair(cancellations[k]) = Pair(lastResponse)

\* An identifier that is missing from the body or empty.
C23_Missing(j) == j = Undefined \/ j = Str("")

\* C23: a request, variant request or submission, whose user_id or
\* subscription_id is missing or empty is answered with status 400 and
\* success=false before any storage access: no handler goes on to storage and
\* no cancellation or subscription record changes.
C23_MissingIdentityRejected ==
    [][calls' # calls \/ lastResponse'.status # 400 \/ lastResponse'.success
          => \A body \in PlainBodies :
                (C23_Missing(body.user_id) \/ C23_Missing(body.subscription_id))
                    => ~Receive(TRUE, body)
      ]_vars

\* A request without identity was rejected while a variant record and a
\* pending cancellation exist.
C23_Witness ==
    /\ lastResponse.status = 400
    /\ lastResponse.message = "Missing user_id or subscription_id"
    /\ cancellations # <<>>
    /\ \E s \in Subs : subscriptions[s] = "pending_cancellation"

\* Submissions with identity whose accepted_downsell is not a boolean or
\* whose reason is present and not a string.
C24_Malformed ==
    {body \in Bodies :
        /\ Truthy(body.user_id) /\ Truthy(body.subscription_id)
        /\ body.get_variant = Undefined
        /\ \/ body.accepted_downsell.t # "boolean"
           \/ body.reason # Undefined /\ body.reason.t # "string"}

\* C24: a submission whose accepted_downsell is not a boolean, or whose
\* reason is present and not a string (0 and false included), is answered
\* with status 400 and changes no cancellation or subscription record: no
\* handler goes on to storage for it.
C24_MalformedSubmissionRejected ==
    [][calls' # calls \/ lastResponse'.status # 400
          => \A body \in C24_Malformed : ~Receive(TRUE, body)
      ]_vars

\* ------------------------------------------------------------------------
\* Properties of the cancellation flow (the hook and the component)
\* ------------------------------------------------------------------------

TerminalSteps == {"success", "success-alt", "retention-accepted", "retention-final"}

\* The gesture of a step changed neither the flow state nor the submissions.
NoOp == flowState' = flowState /\ submissions' = submissions

\* The validation predicates as the specification documents them.
SurveyAnswered(fs) ==
    /\ fs.surveyData.foundJobWithMM \in {Bool(TRUE), Bool(FALSE)}
    /\ \A field \in SurveyFields : fs.surveyData[field] # Null

RetentionSurveyAnswered(fs) == \A field \in SurveyFields : fs.retentionData[field] # Null

LongEnough(text) == Len(text) >= 25

TrimmedNonEmpty(text) == \E k \in 1..Len(text) : text[k] # " "

\* C6: no wizard action occurs unless the variant request has completed with
\* a variant in {A, B}; while the request is pending the flow shows loading
\* and has no variant; a request that fails (network error, non-OK status,
\* success=false) leaves the variant unassigned and the flow on the error
\* screen; and on the error screen nothing but the close report changes.
C6_NoWizardActionWithoutVariant ==
    [][ /\ (fetching # "settled" \/ variant \notin Variants)
            => (NoOp /\ isOpen' = isOpen)
        /\ fetching' = "pending" => (LoadingShown' /\ variant' = "")
        /\ \A outcome \in FetchOutcomes :
              (fetchSettles(outcome) /\ outcome.kind # "success")
                  => (variant' = "" /\ ErrorShown' /\ ~WizardShown')
        /\ ErrorShown => (ErrorShown' /\ variant' = "" /\ NoOp /\ isOpen' = isOpen)
      ]_vars

\* The variant request failed and the user closed the error screen.
C6_Witness == ErrorShown /\ variant = "" /\ closed = "event"

\* C7: after any sequence of user actions the current step is one of the 19
\* named steps, never undefined.
C7_StepIsAlwaysAFlowStep == flowState.step \in FlowSteps /\ Cardinality(FlowSteps) = 19

\* The user went back at least once, declined the offer and submitted a reason.
C7_Witness ==
    /\ flowState.step = "retention-final"
    /\ backs >= 1
    /\ Len(submissions) = 1

\* C8: the flow starts at job-question, and once the step is success,
\* success-alt, retention-accepted or retention-final no action changes the
\* step or dispatches a submission.
C8_InitialAndTerminalSteps ==
    /\ flowState.step = "job-question"
    /\ [][flowState.step \in TerminalSteps
             => /\ flowState'.step = flowState.step
                /\ Len(submissions') = Len(submissions)]_vars

\* The user finished at a terminal step after its submission was settled.
C8_Witness ==
    /\ flowState.step \in TerminalSteps
    /\ closed = "true"
    /\ Len(submissions) = 1
    /\ submissions[1].outcome # "pending"

\* C9: a guarded forward action performed while its validation predicate is
\* false leaves the whole flow state unchanged and dispatches no submission.
C9_FailedGuardIsNoOp ==
    [][ /\ (ClickSurveyContinue /\ ~SurveyAnswered(flowState)) => NoOp
        /\ (ClickFeedbackContinue /\ ~LongEnough(flowState.feedback)) => NoOp
        /\ (ClickCongratulationsNext /\ flowState.hasLawyer = Null) => NoOp
        /\ (ClickVisaDetailsSubmit /\ ~TrimmedNonEmpty(flowState.visaType)) => NoOp
        /\ (ClickRetentionSurveyContinue /\ ~RetentionSurveyAnswered(flowState)) => NoOp
        /\ (ClickRetentionReasonContinue /\ flowState.retentionData.cancellationReason = Null)
              => NoOp
        /\ (ClickRetentionPriceSubmit /\ ~TrimmedNonEmpty(flowState.retentionData.maxPrice))
              => NoOp
        /\ (ClickReasonFeedbackSubmit /\ ~LongEnough(flowState.retentionData.reasonFeedback))
              => NoOp
      ]_vars

\* Feedback one character short of the minimum was submitted and refused.
C9_Witness ==
    /\ blocked = "handleFeedbackSubmit"
    /\ Len(flowState.feedback) = 24
    /\ flowState.step = "feedback"

\* C10: a forward action advances if and only if its documented predicate
\* holds, and an edit that makes the predicate of the current step true
\* turns the forward button from disabled to enabled.
C10_ForwardPermittedIffPredicate ==
    [][ /\ ClickSurveyContinue
            => (flowState'.step = "feedback" <=> SurveyAnswered(flowState))
        /\ ClickRetentionSurveyContinue
            => (flowState'.step = "retention-reason" <=> RetentionSurveyAnswered(flowState))
        /\ ClickFeedbackContinue
            => (flowState'.step = "congratulations" <=> LongEnough(flowState.feedback))
        /\ ClickReasonFeedbackSubmit
            => (flowState'.step = "retention-final"
                    <=> LongEnough(flowState.retentionData.reasonFeedback))
        /\ ClickVisaDetailsSubmit
            => (flowState'.step \in {"success", "success-alt"}
                    <=> TrimmedNonEmpty(flowState.visaType))
        /\ ClickRetentionPriceSubmit
            => (flowState'.step = "retention-final"
                    <=> TrimmedNonEmpty(flowState.retentionData.maxPrice))
        /\ (At("survey") /\ ~SurveyAnswered(flowState) /\ SurveyAnswered(flowState'))
            => (~isSurveyValid(flowState) /\ isSurveyValid(flowState'))
        /\ (At("retention-survey") /\ ~RetentionSurveyAnswered(flowState)
                /\ RetentionSurveyAnswered(flowState'))
            => (~isRetentionSurveyValid(flowState) /\ isRetentionSurveyValid(flowState'))
        /\ (At("feedback") /\ ~LongEnough(flowState.feedback) /\ LongEnough(flowState'.feedback))
            => (~isFeedbackValid(flowState) /\ isFeedbackValid(flowState'))
        /\ ((At("visa-yes") \/ At("visa-no")) /\ ~TrimmedNonEmpty(flowState.visaType)
                /\ TrimmedNonEmpty(flowState'.visaType))
            => (~isVisaTypeValid(flowState) /\ isVisaTypeValid(flowState'))
        /\ (At("retention-price") /\ ~TrimmedNonEmpty(flowState.retentionData.maxPrice)
                /\ TrimmedNonEmpty(flowState'.retentionData.maxPrice))
            => (~isMaxPriceValid(flowState) /\ isMaxPriceValid(flowState'))
      ]_vars

\* The job path was completed with "No" to the platform question, feedback of
\* exactly the minimum length and a visa type typed between blanks.
C10_Witness ==
    /\ flowState.step \in {"success", "success-alt"}
    /\ flowState.surveyData.foundJobWithMM = Bool(FALSE)
    /\ Len(flowState.feedback) = 25
    /\ Len(flowState.visaType) > Len(Trim(flowState.visaType))

\* The submission that a gesture dispatches, as the hook sends it.
Dispatched(accepted, reason) ==
    [accepted_downsell |-> accepted, reason |-> reason, outcome |-> "pending"]

\* C11: accepting the retention offer at retention-offer, retention-survey,
\* retention-reason, retention-platform, retention-jobs, retention-move or
\* retention-other is possible whatever answers were collected, moves the
\* step to retention-accepted and dispatches exactly one submission with
\* accepted=true and reason "Accepted retention offer".
C11_AcceptSteps ==
    {"retention-offer", "retention-survey", "retention-reason", "retention-platform",
     "retention-jobs", "retention-move", "retention-other"}

C11_AcceptMovesToAccepted ==
    [][ /\ (WizardShown /\ flowState.step \in C11_AcceptSteps) => ENABLED ClickAcceptOffer
        /\ (ClickAcceptOffer /\ flowState.step \in C11_AcceptSteps)
              => /\ flowState'.step = "retention-accepted"
                 /\ submissions' =
                       Append(submissions, Dispatched(TRUE, <<"Accepted retention offer">>))
      ]_vars

\* The offer was accepted at a reason-feedback step, with the surveys answered
\* and a feedback text too short to submit.
C11_Witness ==
    /\ flowState.step = "retention-accepted"
    /\ Len(submissions) = 1
    /\ submissions[1].accepted_downsell
    /\ flowState.retentionData.cancellationReason = Str("Other")
    /\ Len(flowState.retentionData.reasonFeedback) = 24

\* C12: answering the job question moves the step from job-question to
\* survey (hasJob) or retention-offer (not hasJob), records hasJob and
\* dispatches no submission.
C12_JobAnswerRoutes ==
    [][\A hasJob \in BOOLEAN :
          ClickJobResponse(hasJob)
              => /\ flowState.step = "job-question"
                 /\ flowState'.step = IF hasJob THEN "survey" ELSE "retention-offer"
                 /\ flowState'.hasJob = Bool(hasJob)
                 /\ submissions' = submissions
      ]_vars

\* The user answered "no" and is shown the retention offer.
C12_Witness ==
    /\ flowState.step = "retention-offer"
    /\ flowState.hasJob = Bool(FALSE)
    /\ submissions = <<>>

\* C13: submitting retention-reason routes by the selected reason
\* ("Too expensive" to retention-price, "Platform not helpful" to
\* retention-platform, "Not enough relevant jobs" to retention-jobs,
\* "Decided not to move" to retention-move, "Other" to retention-other) and
\* dispatches no submission.
C13_Route(reason) ==
    CASE reason = "Too expensive" -> "retention-price"
      [] reason = "Platform not helpful" -> "retention-platform"
      [] reason = "Not enough relevant jobs" -> "retention-jobs"
      [] reason = "Decided not to move" -> "retention-move"
      [] reason = "Other" -> "retention-other"

C13_ReasonRouting ==
    [][(ClickRetentionReasonContinue /\ flowState.retentionData.cancellationReason # Null)
          => /\ flowState'.step = C13_Route(flowState.retentionData.cancellationReason.v)
             /\ submissions' = submissions
      ]_vars

\* "Other" was selected and submitted.
C13_Witness ==
    /\ flowState.step = "retention-other"
    /\ flowState.retentionData.cancellationReason = Str("Other")
    /\ submissions = <<>>

\* C14: submitting visa details at visa-yes or visa-no with a non-blank
\* visaType moves the step to success if hasLawyer is true and to success-alt
\* otherwise, and dispatches exactly one submission with accepted=false and
\* reason "Completed visa support flow".
C14_VisaDetailsSubmit ==
    [][(ClickVisaDetailsSubmit /\ TrimmedNonEmpty(flowState.visaType))
          => /\ flowState.step \in {"visa-yes", "visa-no"}
             /\ flowState'.step =
                   IF flowState.hasLawyer = Bool(TRUE) THEN "success" ELSE "success-alt"
             /\ submissions' =
                   Append(submissions, Dispatched(FALSE, <<"Completed visa support flow">>))
      ]_vars

\* Visa details were submitted by a user without a lawyer.
C14_Witness ==
    /\ flowState.step = "success-alt"
    /\ flowState.hasLawyer = Bool(FALSE)
    /\ submissions # <<>>
    /\ submissions[1].reason = <<"Completed visa support flow">>

\* C15: submitting retention-price with a non-blank maxPrice moves the step
\* to retention-final and dispatches exactly one submission with
\* accepted=false and reason "Too expensive - willing to pay: $<maxPrice>",
\* with the maxPrice of the state at the submit.
C15_PriceSubmit ==
    [][(ClickRetentionPriceSubmit /\ TrimmedNonEmpty(flowState.retentionData.maxPrice))
          => /\ flowState.step = "retention-price"
             /\ flowState'.step = "retention-final"
             /\ submissions' =
                   Append(submissions,
                          Dispatched(FALSE, <<"Too expensive - willing to pay: $">>
                                                \o flowState.retentionData.maxPrice))
      ]_vars

\* The price 1001 was submitted.
C15_Witness ==
    /\ flowState.step = "retention-final"
    /\ submissions # <<>>
    /\ submissions[1].reason = <<"Too expensive - willing to pay: $", "1", "0", "0", "1">>

\* C16: submitting at retention-platform, retention-jobs, retention-move or
\* retention-other with at least 25 characters of reasonFeedback moves the
\* step to retention-final and dispatches exactly one submission with
\* accepted=false and reason "<reason>: <reasonFeedback>", <reason> being the
\* cancellation reason that routes to the current step.
C16_ReasonOf(step) ==
    CASE step = "retention-platform" -> "Platform not helpful"
      [] step = "retention-jobs" -> "Not enough relevant jobs"
      [] step = "retention-move" -> "Decided not to move"
      [] step = "retention-other" -> "Other"

C16_ReasonFeedbackSubmit ==
    [][(ClickReasonFeedbackSubmit /\ LongEnough(flowState.retentionData.reasonFeedback))
          => /\ flowState.step \in
                   {"retention-platform", "retention-jobs", "retention-move", "retention-other"}
             /\ flowState'.step = "retention-final"
             /\ submissions' =
                   Append(submissions,
                          Dispatched(FALSE, <<C16_ReasonOf(flowState.step)>> \o <<": ">>
                                                \o flowState.retentionData.reasonFeedback))
      ]_vars

\* The user typed a price, went back, selected another reason and submitted
\* feedback on it.
C16_Witness ==
    /\ flowState.step = "retention-final"
    /\ backs >= 1
    /\ flowState.retentionData.maxPrice # <<>>
    /\ submissions # <<>>
    /\ submissions[1].reason = <<"Platform not helpful", ": ">> \o Text(25)

\* C17: back-navigation follows the static map only (survey to job-question,
\* feedback to survey, congratulations to feedback, visa-support to
\* congratulations, visa-yes and visa-no to visa-support, retention-survey to
\* retention-offer, retention-reason to retention-survey, retention-price to
\* retention-reason); back from retention-platform, retention-jobs,
\* retention-move, retention-other and from a terminal step leaves the step
\* unchanged.
C17_BackTarget ==
    "survey" :> "job-question"
        @@ "feedback" :> "survey"
        @@ "congratulations" :> "feedback"
        @@ "visa-support" :> "congratulations"
        @@ "visa-yes" :> "visa-support"
        @@ "visa-no" :> "visa-support"
        @@ "retention-survey" :> "retention-offer"
        @@ "retention-reason" :> "retention-survey"
        @@ "retention-price" :> "retention-reason"

C17_BackFollowsStaticMap ==
    [][ClickBack
          => flowState'.step =
                IF flowState.step \in DOMAIN C17_BackTarget
                THEN C17_BackTarget[flowState.step]
                ELSE flowState.step
      ]_vars

\* The user came back from retention-price to retention-reason.
C17_Witness ==
    /\ flowState.step = "retention-reason"
    /\ backs >= 1
    /\ flowState.retentionData.maxPrice # <<>>

\* C18: a back action while the step is job-question or retention-offer
\* leaves the flow state unchanged; retention-offer never goes back to
\* job-question.
C18_NoBackFromJobQuestionOrOffer ==
    [][ /\ (ClickBack /\ flowState.step \in {"job-question", "retention-offer"}) => NoOp
        /\ flowState.step = "retention-offer" => flowState'.step # "job-question"
      ]_vars

\* The user went for the back button on the retention offer.
C18_Witness == flowState.step = "retention-offer" /\ blocked = "goBack"

\* C19: visa-support entered by going back from visa-yes or visa-no has
\* hasLawyer null, and from there visa-yes/visa-no is reached only by
\* answering again; visa-support entered from congratulations keeps hasLawyer.
C19_BackToVisaSupportClearsLawyer ==
    [][ /\ (flowState.step \in {"visa-yes", "visa-no"} /\ flowState'.step = "visa-support")
              => flowState'.hasLawyer = Null
        /\ (flowState.step = "visa-support" /\ flowState.hasLawyer = Null
                /\ flowState'.step \in {"visa-yes", "visa-no"})
              => /\ flowState'.hasLawyer # Null
                 /\ \E hasLawyer \in BOOLEAN : SelectVisaLawyer(hasLawyer)
        /\ (flowState.step = "congratulations" /\ flowState'.step = "visa-support")
              => /\ flowState'.hasLawyer = flowState.hasLawyer
                 /\ flowState'.hasLawyer # Null
      ]_vars

\* The user came back to visa-support from a visa details step where a visa
\* type had been typed.
C19_Witness ==
    /\ flowState.step = "visa-support"
    /\ flowState.hasLawyer = Null
    /\ flowState.visaType # <<>>

\* C20: the outcome of a submission never influences the flow: the step
\* change of a submitting transition is made at the dispatch, while the
\* submission is pending, and a submission that settles (OK, non-OK status
\* or network failure) changes nothing of the flow.
C20_SubmissionOutcomeIgnored ==
    [][ /\ Len(submissions') > Len(submissions)
              => /\ Len(submissions') = Len(submissions) + 1
                 /\ submissions'[Len(submissions')].outcome = "pending"
                 /\ flowState'.step # flowState.step
        /\ \A k \in 1..Len(submissions), outcome \in SubmissionOutcomes :
              submissionSettles(k, outcome)
                  => /\ flowState' = flowState
                     /\ <<variant, loading, error, isOpen, closed>>'
                           = <<variant, loading, error, isOpen, closed>>
                     /\ Len(submissions') = Len(submissions)
      ]_vars

\* A submission failed and was logged, and the user finished the flow.
C20_Witness ==
    /\ flowState.step \in {"success", "success-alt", "retention-final"}
    /\ submissions # <<>>
    /\ submissions[1].outcome = "logged"
    /\ closed = "true"
    /\ error = ""

\* C21: a triggering transition produces at most one request: the requests
\* sent are as many as the submitting transitions taken (each of which
\* enters a terminal step), a request that has settled is never sent again,
\* and a step sends at most one request.
C21_OneRequestPerSubmittingTransition ==
    /\ [](Len(submissions) = IF flowState.step \in TerminalSteps THEN 1 ELSE 0)
    /\ [][ /\ Len(submissions') \in {Len(submissions), Len(submissions) + 1}
            /\ \A k \in 1..Len(submissions) :
                  /\ submissions'[k].accepted_downsell = submissions[k].accepted_downsell
                  /\ submissions'[k].reason = submissions[k].reason
                  /\ submissions[k].outcome # "pending" => submissions'[k] = submissions[k]
          ]_vars

\* The request of an accepted offer failed and was logged; it stays the only
\* request.
C21_Witness ==
    /\ flowState.step = "retention-accepted"
    /\ Len(submissions) = 1
    /\ submissions[1].outcome = "logged"

\* C25: with a missing or empty identity pair the flow fails fast: it is on
\* the error screen, or the hook can still take a step that leads there, so
\* that it never rests in loading; and it shows no wizard step and sends no
\* submission.
C25_EmptyIdentityFailsFast ==
    (userId = "" \/ subscriptionId = "")
        => /\ ErrorShown \/ ENABLED (fetchVariant \/ \E outcome \in FetchOutcomes :
                                                        fetchSettles(outcome))
           /\ ~WizardShown
           /\ submissions = <<>>

C27_FallbackUnreachable ==
    [][ /\ (ClickRetentionReasonContinue /\ flowState'.step # flowState.step)
              => flowState.retentionData.cancellationReason \in ReasonInputs
        /\ flowState.retentionData.cancellationReason # Null
              => flowState'.retentionData.cancellationReason # Null
        /\ (flowState.step # "retention-final" /\ flowState'.step = "retention-final")
              => flowState.step \in
                    {"retention-price", "retention-platform", "retention-jobs",
                     "retention-move", "retention-other"}
      ]_vars

\* The user tried to submit retention-reason with no reason selected.
C27_Witness ==
    /\ flowState.step = "retention-reason"
    /\ flowState.retentionData.cancellationReason = Null
    /\ blocked = "handleRetentionReasonSubmit"

\* C28 as stated: the only forward edge of retention-price is submit, to
\* retention-final with an accepted=false submission; retention-accepted is
\* never entered from retention-price.
C28_PriceHasOnlySubmit ==
    [][flowState.step = "retention-price"
          => /\ flowState'.step \in {"retention-price", "retention-reason", "retention-final"}
             /\ \A k \in 1..Len(submissions') :
                   k > Len(submissions) => ~submissions'[k].accepted_downsell
      ]_vars

\* C28 as amended: retention-price has two forward edges: submit, with a
\* non-blank maxPrice, to retention-final with an accepted=false submission,
\* and accept, always available, to retention-accepted with the submission
\* (true, "Accepted retention offer"); the only other way out is back to
\* retention-reason.
C28_PriceHasSubmitAndAccept ==
    [][ /\ At("retention-price") => ENABLED ClickAcceptOffer
        /\ (flowState.step = "retention-price" /\ flowState'.step # flowState.step)
              => \/ /\ flowState'.step = "retention-final"
                    /\ TrimmedNonEmpty(flowState.retentionData.maxPrice)
                    /\ submissions' =
                          Append(submissions,
                                 Dispatched(FALSE, <<"Too expensive - willing to pay: $">>
                                                       \o flowState.retentionData.maxPrice))
                 \/ /\ flowState'.step = "retention-accepted"
                    /\ submissions' =
                          Append(submissions, Dispatched(TRUE, <<"Accepted retention offer">>))
                 \/ /\ flowState'.step = "retention-reason"
                    /\ submissions' = submissions
      ]_vars

\* The offer was accepted on retention-price, after a price had been typed
\* and without any back navigation.
C28_Witness ==
    /\ flowState.step = "retention-accepted"
    /\ flowState.retentionData.maxPrice # <<>>
    /\ backs = 0

\* C29: a back action changes only the step, and hasLawyer, which becomes
\* null when the target is visa-support; hasJob, the survey answers, feedback,
\* visaType, the retention answers and completedSteps are kept, and no
\* submission is dispatched.
C29_BackPreservesCollectedState ==
    [][ClickBack
          => /\ flowState'.hasJob = flowState.hasJob
             /\ flowState'.surveyData = flowState.surveyData
             /\ flowState'.feedback = flowState.feedback
             /\ flowState'.visaType = flowState.visaType
             /\ flowState'.retentionData = flowState.retentionData
             /\ flowState'.completedSteps = flowState.completedSteps
             /\ flowState'.hasLawyer =
                   IF flowState'.step # flowState.step /\ flowState'.step = "visa-support"
                   THEN Null
                   ELSE flowState.hasLawyer
             /\ submissions' = submissions
      ]_vars

\* The flow went back to the survey with a feedback text already typed.
C29_Witness ==
    /\ flowState.step = "survey"
    /\ backs >= 1
    /\ flowState.feedback # <<>>
    /\ flowState.hasJob # Null

\* C33: the number of submissions a flow has dispatched is 1 when its step is
\* terminal and 0 otherwise; hence no flow dispatches both an accepted and a
\* declined submission.
C33_OneSubmissionExactlyAtTerminal ==
    /\ flowState.step \in TerminalSteps => Len(submissions) = 1
    /\ flowState.step \notin TerminalSteps => Len(submissions) = 0
    /\ \A j, k \in 1..Len(submissions) :
          submissions[j].accepted_downsell = submissions[k].accepted_downsell

\* A flow that went back twice on its way has reached retention-final and
\* its one submission has settled.
C33_Witness ==
    /\ flowState.step = "retention-final"
    /\ backs = MaxBacks
    /\ Len(submissions) = 1
    /\ submissions[1].outcome # "pending"

\* C34: at visa-yes hasLawyer is true and at visa-no it is false; success is
\* entered only from visa-yes and success-alt only from visa-no.
C34_VisaStepMatchesLawyer ==
    /\ [](flowState.step = "visa-yes" => flowState.hasLawyer = Bool(TRUE))
    /\ [](flowState.step = "visa-no" => flowState.hasLawyer = Bool(FALSE))
    /\ [][ /\ (flowState'.step = "success" /\ flowState.step # "success")
                  => flowState.step = "visa-yes"
           /\ (flowState'.step = "success-alt" /\ flowState.step # "success-alt")
                  => flowState.step = "visa-no"
      ]_vars

\* After going back from visa-yes and answering again, the flow ended at
\* success-alt without a lawyer.
C34_Witness ==
    /\ flowState.step = "success-alt"
    /\ flowState.hasLawyer = Bool(FALSE)
    /\ backs >= 1

\* C35: the guards passed on the way hold at the end, whatever was navigated
\* back and edited again: at success and success-alt the four survey answers
\* are set, feedback has at least 25 characters, hasLawyer is not null and the
\* trimmed visaType is not empty; at retention-final the three retention
\* survey answers and cancellationReason are set and the trimmed maxPrice is
\* not empty or reasonFeedback has at least 25 characters.
C35_GuardsHoldAtTheEnd ==
    /\ flowState.step \in {"success", "success-alt"}
          => /\ SurveyAnswered(flowState)
             /\ LongEnough(flowState.feedback)
             /\ flowState.hasLawyer \in {Bool(TRUE), Bool(FALSE)}
             /\ TrimmedNonEmpty(flowState.visaType)
    /\ flowState.step = "retention-final"
          => /\ RetentionSurveyAnswered(flowState)
             /\ flowState.retentionData.cancellationReason \in
                   {Str(r) : r \in DOMAIN stepMap}
             /\ \/ TrimmedNonEmpty(flowState.retentionData.maxPrice)
                \/ LongEnough(flowState.retentionData.reasonFeedback)

\* The flow ended at retention-final through a feedback step, after a back
\* navigation and with no price typed.
C35_Witness ==
    /\ flowState.step = "retention-final"
    /\ backs >= 1
    /\ flowState.retentionData.maxPrice = <<>>
    /\ flowState.retentionData.cancellationReason # Str("Too expensive")

\* C36: the variant does not influence the flow: after the same sequence of
\* user gestures the flow that was given variant A and the flow that was
\* given variant B are at the same step, hold the same collected answers and
\* have dispatched the same submissions.
C36_VariantDoesNotInfluenceFlow ==
    /\ flowState["A"] = flowState["B"]
    /\ submissions["A"] = submissions["B"]
    /\ isOpen["A"] = isOpen["B"]
    /\ closed["A"] = closed["B"]

\* Both flows, of different variants, have accepted the offer after a back
\* navigation.
C36_Witness ==
    /\ variant["A"] = "A" /\ variant["B"] = "B"
    /\ flowState["A"].step = "retention-accepted"
    /\ flowState["B"].step = "retention-accepted"
    /\ backs["A"] >= 1
    /\ Len(submissions["B"]) = 1

\* C37: the close callback has reported cancelled=true only at success,
\* success-alt or retention-final, after a submission with accepted=false was
\* dispatched; closing from retention-accepted, or with the X of the header
\* at any step, reports no cancelled=true.
C37_CancelledOnlyAfterDeclinedSubmission ==
    /\ [](closed = "true"
            => /\ flowState.step \in {"success", "success-alt", "retention-final"}
               /\ \E k \in 1..Len(submissions) : ~submissions[k].accepted_downsell)
    /\ [][ /\ ClickClose => closed' = "undefined"
           /\ (flowState.step = "retention-accepted" /\ closed' # closed)
                 => closed' = "undefined"
      ]_vars

\* The flow was finished at success-alt and reported as cancelled.
C37_Witness ==
    /\ closed = "true"
    /\ flowState.step = "success-alt"
    /\ isOpen

\* The largest number of step changes after which a step can be entered by a
\* user who never goes back.
C38_Depth ==
    [s \in FlowSteps |->
        CASE s = "job-question" -> 0
          [] s \in {"survey", "retention-offer"} -> 1
          [] s \in {"feedback", "retention-survey"} -> 2
          [] s \in {"congratulations", "retention-reason"} -> 3
          [] s \in {"visa-support", "retention-price", "retention-platform",
                    "retention-jobs", "retention-move", "retention-other"} -> 4
          [] s \in {"visa-yes", "visa-no", "retention-final", "retention-accepted"} -> 5
          [] s \in {"success", "success-alt"} -> 6]

\* C38: without back navigation the step graph is acyclic: every step change
\* leads to a step that lies deeper, and no step lies deeper than 6; and a flow
\* whose user keeps going and keeps it open reaches a terminal step.
C38_ForwardRunsReachTerminal ==
    /\ [][flowState'.step # flowState.step
            => C38_Depth[flowState.step] < C38_Depth[flowState'.step]]_vars
    /\ \A s \in FlowSteps : C38_Depth[s] <= 6
    /\ <>(flowState.step \in TerminalSteps \/ ~isOpen)

\* The longest way through the wizard: success after six step changes, with
\* no back navigation.
C38_Witness ==
    /\ flowState.step = "success"
    /\ backs = 0
    /\ isOpen
    /\ Len(submissions) = 1

====
